---- MODULE Spec2Model ----
(***************************************************************************)
(* InvestmentAccount (src/main.py): the month-by-month projection of an    *)
(* investment account.  The account's data frame is a sequence of labelled *)
(* rows; simulate is a call, one step per iteration of its month loop, and *)
(* its return.                                                             *)
(*                                                                         *)
(* Numbers.  Python floats are modelled as fixed-point numbers: the        *)
(* integer n stands for n / Scale, and every multiplication or division    *)
(* rounds its result to the nearest representable value, ties to even, as  *)
(* an IEEE operation does.  Rounded ledger fields (round(x, 2)) are whole  *)
(* numbers of cents.                                                       *)
(***************************************************************************)
EXTENDS Integers, Sequences, FiniteSets, TLC

VARIABLES
    \* the fields __init__ sets from its arguments (management_fee in percent)
    start_amount, management_fee, market_growth, dividend_yield,
    monthly_contribution,
    \* self.data: the rows in order, each [label, row]
    data,
    \* simulate's position ("idle": not running, "loop": in the month loop),
    \* its argument and its loop variables
    pc, years, year, month,
    \* simulate's locals
    total_amount, total_invested, total_fees, total_fees_cumulative,
    total_dividends, market_change, fees, dividends,
    \* history: the value of fees in each iteration of the current call, the
    \* number of calls made, how the last call ended ("returned", "raised"),
    \* and self.data as the last call found it
    feeLog, calls, outcome, dataAtCall

config == <<start_amount, management_fee, market_growth, dividend_yield,
            monthly_contribution>>
locals == <<years, year, month, total_amount, total_invested, total_fees,
            total_fees_cumulative, total_dividends, market_change, fees,
            dividends>>
vars == <<config, data, pc, locals, feeLog, calls, outcome, dataAtCall>>

-----------------------------------------------------------------------------
(* Bounds of the model. *)

\* the longest horizon passed to simulate
MaxYears == 2
\* the number of simulate calls made on one account
MaxCalls == 2

-----------------------------------------------------------------------------
(* Fixed-point arithmetic standing for the float arithmetic of the code. *)

\* units per 1.0
Scale == 10 ^ 4

\* a / b rounded to the nearest integer, ties to the even one (b > 0)
RoundDiv(a, b) ==
    LET q == a \div b
        r == a % b
    IN  IF 2 * r < b THEN q
        ELSE IF 2 * r > b THEN q + 1
        ELSE IF q % 2 = 0 THEN q ELSE q + 1

\* x * y on numbers scaled by Scale
FMul(x, y) == RoundDiv(x * y, Scale)

\* r ** 12
Pow12(r) ==
    LET r2 == FMul(r, r)
        r4 == FMul(r2, r2)
        r6 == FMul(r4, r2)
    IN  FMul(r6, r6)

RECURSIVE RootSearch(_, _, _)
\* the largest r in lo..hi with r ** 12 <= x (Pow12(lo) <= x is given)
RootSearch(lo, hi, x) ==
    IF lo >= hi THEN lo
    ELSE LET mid == (lo + hi + 1) \div 2
         IN  IF Pow12(mid) <= x THEN RootSearch(mid, hi, x)
             ELSE RootSearch(lo, mid - 1, x)

\* x ** (1 / 12), for 0 <= x
Root12(x) == RootSearch(0, IF x > Scale THEN x ELSE Scale, x)

\* round(x, 2): x in whole cents
Round2(x) == RoundDiv(x, Scale \div 100)

-----------------------------------------------------------------------------
(* InvestmentAccount.__init__ *)

months == <<"Janvier", "Février", "Mars", "Avril",
            "Mai", "Juin", "Juillet", "Août",
            "Septembre", "Octobre", "Novembre", "Décembre">>

current_year == 2025

Columns == <<"Somme totale",
             "Somme totale investie",
             "Bénéfices",
             "Frais de gestion",
             "Montants totaux de frais de gestion",
             "Évolution du marché",
             "Dividendes versés",
             "Contribution ajoutée">>

\* the values the constructor's arguments are drawn from
StartAmounts == {-20 * Scale, 0, 50 * Scale + 50}
ManagementFees == {0, 7500}
MarketGrowths == {-1000, 0, 1000}
DividendYields == {-100, 0, 159}
MonthlyContributions == {-5 * Scale, 0, 6 * Scale}

Init ==
    /\ start_amount \in StartAmounts
    /\ management_fee \in ManagementFees
    /\ market_growth \in MarketGrowths
    /\ dividend_yield \in DividendYields
    /\ monthly_contribution \in MonthlyContributions
    /\ data = << >>
    /\ pc = "idle"
    /\ years = 0 /\ year = 0 /\ month = 0
    /\ total_amount = 0 /\ total_invested = 0
    /\ total_fees = 0 /\ total_fees_cumulative = 0 /\ total_dividends = 0
    /\ market_change = 0 /\ fees = 0 /\ dividends = 0
    /\ feeLog = << >>
    /\ calls = 0
    /\ outcome = "none"
    /\ dataAtCall = << >>

-----------------------------------------------------------------------------
(* The statements of simulate's loop body. *)

\* total_amount += self.monthly_contribution, and the same on total_invested
SkipContribution(total, c) == total

AddContribution(total, c) == total + c

\* (1 + self.market_growth) ** (1 / 12)
GrowthFactor(g) == Root12(Scale + g)

\* total_amount * (growth_factor - 1)
MarketChangeSignFlipped(total, growth_factor) ==
    FMul(total, Scale - growth_factor)

MarketChange(total, growth_factor) == FMul(total, growth_factor - Scale)

\* (total_amount * (self.management_fee / 100)) / 4 if month % 3 == 0 else 0
Fees(total, fee, m) ==
    IF m % 3 = 0 THEN RoundDiv(FMul(total, RoundDiv(fee, 100)), 4) ELSE 0

\* total_amount * self.dividend_yield if month == 12 else 0
DividendsEveryQuarter(total, yield, m) ==
    IF m % 3 = 0 THEN FMul(total, yield) ELSE 0

Dividends(total, yield, m) ==
    IF m = 12 THEN FMul(total, yield) ELSE 0

\* f"{self.months[month-1]} {self.current_year + year - 1}"
LabelWithoutYearOffset(y, m) ==
    months[m] \o " " \o ToString(current_year)

LabelYearOffByOne(y, m) ==
    months[m] \o " " \o ToString(current_year + y)

Label(y, m) == months[m] \o " " \o ToString(current_year + y - 1)

\* self.data.loc[label] = row: the row of that label is replaced where it
\* is, a row of a new label is appended
SetLoc(df, label, row) ==
    IF \E i \in 1..Len(df) : df[i].label = label
    THEN [i \in 1..Len(df) |->
            IF df[i].label = label THEN [label |-> label, row |-> row]
            ELSE df[i]]
    ELSE Append(df, [label |-> label, row |-> row])

\* one iteration of the month loop on the running totals t, up to the row
MonthBodyDividendBeforeFee(t, m) ==
    LET amount1 == AddContribution(t.total_amount, monthly_contribution)
        invested == AddContribution(t.total_invested, monthly_contribution)
        growth_factor == GrowthFactor(market_growth)
        change == MarketChange(amount1, growth_factor)
        amount2 == amount1 + change
        divid == Dividends(amount2, dividend_yield, m)
        amount3 == amount2 + divid
        fee == Fees(amount3, management_fee, m)
        amount4 == amount3 - fee
    IN  [total_amount |-> amount4,
         total_invested |-> invested,
         total_fees |-> t.total_fees + fee,
         total_fees_cumulative |-> t.total_fees_cumulative + fee,
         total_dividends |-> t.total_dividends + divid,
         market_change |-> change,
         fees |-> fee,
         dividends |-> divid]

MonthBody(t, m) ==
    LET amount1 == AddContribution(t.total_amount, monthly_contribution)
        invested == AddContribution(t.total_invested, monthly_contribution)
        growth_factor == GrowthFactor(market_growth)
        change == MarketChange(amount1, growth_factor)
        amount2 == amount1 + change
        fee == Fees(amount2, management_fee, m)
        amount3 == amount2 - fee
        fees_sum == t.total_fees + fee
        fees_cum == t.total_fees_cumulative + fee
        divid == Dividends(amount3, dividend_yield, m)
        amount4 == amount3 + divid
        divid_sum == t.total_dividends + divid
    IN  [total_amount |-> amount4,
         total_invested |-> invested,
         total_fees |-> fees_sum,
         total_fees_cumulative |-> fees_cum,
         total_dividends |-> divid_sum,
         market_change |-> change,
         fees |-> fee,
         dividends |-> divid]

\* the list stored in the data frame, in the order of Columns
RowMonthFeeAsCumulative(t) ==
    <<Round2(t.total_amount),
      Round2(t.total_invested),
      Round2(t.total_amount - t.total_invested),
      Round2(t.total_fees),
      Round2(t.fees),
      Round2(t.market_change),
      Round2(t.dividends),
      Round2(monthly_contribution)>>

Row(t) ==
    <<Round2(t.total_amount),
      Round2(t.total_invested),
      Round2(t.total_amount - t.total_invested),
      Round2(t.total_fees),
      Round2(t.total_fees_cumulative),
      Round2(t.market_change),
      Round2(t.dividends),
      Round2(monthly_contribution)>>

\* the running totals as simulate sets them before the loop
StartTotals ==
    [total_amount |-> start_amount,
     total_invested |-> start_amount,
     total_fees |-> 0,
     total_fees_cumulative |-> 0,
     total_dividends |-> 0,
     market_change |-> 0,
     fees |-> 0,
     dividends |-> 0]

\* the running totals of the call in progress
Totals ==
    [total_amount |-> total_amount,
     total_invested |-> total_invested,
     total_fees |-> total_fees,
     total_fees_cumulative |-> total_fees_cumulative,
     total_dividends |-> total_dividends,
     market_change |-> market_change,
     fees |-> fees,
     dividends |-> dividends]

\* for year in range(1, years + 1): the loop is entered iff 1 <= years
LoopEntered(n) == 1 <= n

\* the (year, month) after (y, m) in the nested loops, <<0, 0>> at the end
NextIteration(y, m, n) ==
    IF m < 12 THEN <<y, m + 1>>
    ELSE IF y < n THEN <<y + 1, 1>>
    ELSE <<0, 0>>

-----------------------------------------------------------------------------
(* simulate *)

\* simulate(n) is called: the running totals are set; a loop that has no
\* iteration returns at once
SimulateCall(n) ==
    /\ pc = "idle"
    /\ calls < MaxCalls
    /\ calls' = calls + 1
    /\ years' = n
    /\ dataAtCall' = data
    /\ total_amount' = StartTotals.total_amount
    /\ total_invested' = StartTotals.total_invested
    /\ total_fees' = StartTotals.total_fees
    /\ total_fees_cumulative' = StartTotals.total_fees_cumulative
    /\ total_dividends' = StartTotals.total_dividends
    /\ market_change' = 0 /\ fees' = 0 /\ dividends' = 0
    /\ feeLog' = << >>
    /\ IF LoopEntered(n)
       THEN /\ pc' = "loop"
            /\ year' = 1 /\ month' = 1
            /\ outcome' = "running"
       ELSE /\ pc' = "idle"
            /\ year' = 0 /\ month' = 0
            /\ outcome' = "returned"
    /\ UNCHANGED <<config, data>>

\* one iteration of the month loop
MonthStep ==
    /\ pc = "loop"
    /\ \E t \in {MonthBody(Totals, month)},
          nxt \in {NextIteration(year, month, years)} :
           /\ total_amount' = t.total_amount
           /\ total_invested' = t.total_invested
           /\ total_fees' = t.total_fees
           /\ total_fees_cumulative' = t.total_fees_cumulative
           /\ total_dividends' = t.total_dividends
           /\ market_change' = t.market_change
           /\ fees' = t.fees
           /\ dividends' = t.dividends
           /\ feeLog' = Append(feeLog, t.fees)
           /\ data' = SetLoc(data, Label(year, month), Row(t))
           /\ IF nxt = <<0, 0>>
              THEN /\ pc' = "idle"
                   /\ outcome' = "returned"
                   /\ UNCHANGED <<year, month>>
              ELSE /\ pc' = "loop"
                   /\ year' = nxt[1] /\ month' = nxt[2]
                   /\ UNCHANGED outcome
    /\ UNCHANGED <<config, years, calls, dataAtCall>>

Next ==
    \/ \E n \in (-1)..MaxYears : SimulateCall(n)
    \/ MonthStep

Spec == Init /\ [][Next]_vars

-----------------------------------------------------------------------------
(* The ledger as its readers see it. *)

\* the 0-based position of the i-th record in its 12-record year block
Pos(i) == (i - 1) % 12

\* the index of a column of Columns
Col(name) == CHOOSE j \in 1..Len(Columns) : Columns[j] = name

\* the field `name` of the i-th record
Field(i, name) == data[i].row[Col(name)]

\* simulate has returned from its first call on the account
FreshRunDone == calls = 1 /\ pc = "idle"

RECURSIVE SumTo(_, _)
\* s[1] + ... + s[k]
SumTo(s, k) == IF k = 0 THEN 0 ELSE SumTo(s, k - 1) + s[k]

RECURSIVE RunFresh(_, _, _, _)
\* the data frame df after the months k..n of a run whose totals are t
RunFresh(df, t, k, n) ==
    IF k > n THEN df
    ELSE LET t2 == CHOOSE v \in {MonthBody(t, Pos(k) + 1)} : TRUE
         IN  RunFresh(SetLoc(df, Label(((k - 1) \div 12) + 1, Pos(k) + 1),
                             Row(t2)),
                      t2, k + 1, n)

\* the ledger of a new account of the same configuration after simulate(y)
FreshLedger(y) == RunFresh(<< >>, StartTotals, 1, 12 * y)

-----------------------------------------------------------------------------
(* Claims *)

\* C1: after simulate(years), years >= 1, on a freshly constructed account
\* the ledger holds exactly years * 12 records.
C1_LedgerLength ==
    (FreshRunDone /\ years >= 1) => Len(data) = years * 12

C1_Witness ==
    FreshRunDone /\ years = MaxYears /\ Len(data) = 12 * MaxYears

\* C2: the column "Frais de gestion" (the fee charged this month) is zero
\* in every record that is not at position 2, 5, 8 or 11 of its year block.
C2_FeeFieldZeroOutsideQuarters ==
    \A i \in 1..Len(data) :
        Pos(i) \notin {2, 5, 8, 11} => Field(i, "Frais de gestion") = 0

\* C3: the column "Dividendes versés" is zero in every record that is not
\* the twelfth of its year block.
C3_DividendOnlyInTwelfthMonth ==
    \A i \in 1..Len(data) :
        Pos(i) # 11 => Field(i, "Dividendes versés") = 0

C3_Witness ==
    /\ Len(data) > 12
    /\ Field(12, "Dividendes versés") # 0
    /\ Field(13, "Dividendes versés") = 0

\* C4: the n-th record's invested principal is start_amount plus n monthly
\* contributions, whatever the growth rate, the fee rate and the yield.
C4_InvestedPrincipal ==
    \A n \in 1..Len(data) :
        Field(n, "Somme totale investie")
            = Round2(start_amount + monthly_contribution * n)

C4_Witness ==
    /\ FreshRunDone /\ years = MaxYears /\ Len(data) = 12 * MaxYears
    /\ monthly_contribution < 0
    /\ management_fee # 0 /\ market_growth # 0 /\ dividend_yield # 0
    /\ Field(Len(data), "Somme totale investie")
          = Round2(start_amount + monthly_contribution * 12 * MaxYears)
    /\ Field(Len(data), "Somme totale investie")
          # Field(Len(data), "Somme totale")

\* C5: simulate(years) with years < 1 ends in an invalid-argument failure
\* and leaves the ledger as it was; it never returns normally.
C5_NonPositiveHorizonFails ==
    (pc = "idle" /\ calls >= 1 /\ years < 1)
        => (outcome = "raised" /\ data = dataAtCall)

\* C6: after any sequence of simulate calls with horizons >= 1 the ledger
\* is the ledger of a new account of the same configuration after the last
\* call alone.
C6_ReinvokeReplacesLedger ==
    (pc = "idle" /\ calls >= 1 /\ years >= 1) => data = FreshLedger(years)

\* C7: the record at 0-based position k is labelled with month name number
\* (k mod 12) + 1 and the year 2025 + (k div 12), so the labels are
\* pairwise distinct.
C7_ChronologicalLabels ==
    /\ \A k \in 0..(Len(data) - 1) :
          data[k + 1].label
              = months[(k % 12) + 1] \o " " \o ToString(2025 + (k \div 12))
    /\ Cardinality({data[i].label : i \in 1..Len(data)}) = Len(data)

C7_Witness ==
    /\ FreshRunDone /\ Len(data) = 12 * MaxYears
    /\ data[1].label = "Janvier 2025"
    /\ data[13].label = "Janvier 2026"
    /\ data[12].label = "Décembre 2025"

\* the total balance never decreases from a record to the next
BalanceNonDecreasing ==
    \A i \in 1..(Len(data) - 1) :
        Field(i, "Somme totale") <= Field(i + 1, "Somme totale")

\* C8 (as claimed): with management_fee = 0 and market_growth >= 0, for any
\* start amount, monthly contribution and dividend yield, the total balance
\* is non-decreasing from each record to the next.
C8_MonotoneAsClaimed ==
    (management_fee = 0 /\ market_growth >= 0) => BalanceNonDecreasing

\* C8 (amended): with management_fee = 0, market_growth >= 0 and a start
\* amount, a monthly contribution and a dividend yield that are all >= 0,
\* the total balance is non-decreasing from each record to the next.
C8_MonotoneNonNegativeInputs ==
    (/\ management_fee = 0 /\ market_growth >= 0
     /\ start_amount >= 0 /\ monthly_contribution >= 0
     /\ dividend_yield >= 0)
        => BalanceNonDecreasing

C8_Witness ==
    /\ management_fee = 0 /\ market_growth > 0
    /\ start_amount > 0 /\ monthly_contribution = 0 /\ dividend_yield > 0
    /\ Len(data) = 12 * MaxYears
    /\ Field(11, "Somme totale") < Field(12, "Somme totale")
    /\ Field(12, "Somme totale") < Field(13, "Somme totale")

\* C9: in each month the steps are contribution, growth, fee, dividend,
\* each on the balance the previous step left: with b the balance before
\* the month (start_amount for the first), market_change = (b + c)(f - 1),
\* fee = (b + c + market_change)(management_fee / 100) / 4 in a quarter
\* month, dividend = (b + c + market_change - fee) * dividend_yield in the
\* twelfth month, and b + c + market_change - fee + dividend is carried on.
C9_StepOrder ==
    [][/\ (pc = "idle" /\ pc' = "loop") => total_amount' = start_amount
       /\ (pc = "loop") =>
            LET b == total_amount
                c == monthly_contribution
                f == GrowthFactor(market_growth)
                change == FMul(b + c, f - Scale)
                fee == IF month \in {3, 6, 9, 12}
                       THEN RoundDiv(FMul(b + c + change,
                                          RoundDiv(management_fee, 100)), 4)
                       ELSE 0
                divid == IF month = 12
                         THEN FMul(b + c + change - fee, dividend_yield)
                         ELSE 0
            IN  /\ market_change' = change
                /\ fees' = fee
                /\ dividends' = divid
                /\ total_amount' = b + c + change - fee + divid]_vars

C9_Witness ==
    /\ pc = "loop" /\ year = 2 /\ month = 1
    /\ fees # 0 /\ dividends # 0 /\ market_change # 0
    /\ monthly_contribution # 0

\* C10: the column "Montants totaux de frais de gestion" of the k-th record
\* of a simulate call is the sum of the fees of the months 1..k of that
\* call: zero before the first fee, unchanged by a month that is not a
\* quarter month, and not reset at a year boundary.
C10_CumulativeFees ==
    /\ total_fees_cumulative = SumTo(feeLog, Len(feeLog))
    /\ \A k \in 1..Len(feeLog) :
          /\ Field(k, "Montants totaux de frais de gestion")
                = Round2(SumTo(feeLog, k))
          /\ (Pos(k) \notin {2, 5, 8, 11}) =>
                /\ feeLog[k] = 0
                /\ Field(k, "Montants totaux de frais de gestion")
                      = (IF k = 1 THEN 0
                         ELSE Field(k - 1,
                                    "Montants totaux de frais de gestion"))

C10_Witness ==
    /\ Len(feeLog) > 12
    /\ feeLog[3] > 0 /\ feeLog[6] > 0 /\ feeLog[12] > 0
    /\ Field(2, "Montants totaux de frais de gestion") = 0
    /\ Field(6, "Montants totaux de frais de gestion")
          > Field(5, "Montants totaux de frais de gestion")
    /\ Field(13, "Montants totaux de frais de gestion")
          = Field(12, "Montants totaux de frais de gestion")
    /\ Field(13, "Montants totaux de frais de gestion") > 0

====
